---- MODULE Spec2Model ----
(***************************************************************************)
(* Model of the timelapse orchestrator (src/src/main.cpp,                  *)
(* src/src/timelapse.cpp, src/src/utils.cpp).                              *)
(*                                                                         *)
(* Strings are sequences of one-character strings, so that find, substr,   *)
(* trimming and std::stoi are computed as the library computes them.       *)
(* Time is kept in milliseconds; the wall clock is a time of day that      *)
(* wraps at midnight, with a separate count of the midnights crossed.      *)
(***************************************************************************)
EXTENDS Integers, Sequences, FiniteSets, TLC

----------------------------------------------------------------------------
(* Bounds of the model *)

\* the capture loop is followed for at most MaxTicks iterations
MaxTicks == 4

\* the Waiting phase is followed for at most MaxPolls 30 s sleeps
MaxPolls == 3

----------------------------------------------------------------------------
(* Program constants *)

\* seconds in a day: the range of tm_hour*3600 + tm_min*60 + tm_sec
DaySeconds == 86400

\* std::chrono milliseconds per second
MsPerSecond == 1000

\* std::this_thread::sleep_for(std::chrono::seconds(30)) in the Waiting loop
PollSleepSeconds == 30

\* int fps = 25
Fps == 25

\* largest value of int (std::stoi throws std::out_of_range above it)
IntMax == 2147483647

DayMs == DaySeconds * MsPerSecond

\* std::string::npos, kept symbolic: npos + 1 wraps to 0 as it does on size_t
Npos == -1

LOGS_PATH == "logs/"
PICS_PATH == "pics/"
VIDEOS_PATH == "videos/"
OUTPUT_DIR == "pics/<prefix>_pics/"

----------------------------------------------------------------------------
(* std::string operations on sequences of characters *)

Min(a, b) == IF a <= b THEN a ELSE b
Max(a, b) == IF a >= b THEN a ELSE b

\* the characters of " \t\n\r"
TrimSet == {" ", "\t", "\n", "\r"}

\* isspace(), which std::stoi (strtol) skips at the front
SpaceSet == {" ", "\t", "\n", "\r"}

Digits == <<"0", "1", "2", "3", "4", "5", "6", "7", "8", "9">>

IsDigit(c) == \E i \in 1..10 : Digits[i] = c

DigitVal(c) == (CHOOSE i \in 1..10 : Digits[i] = c) - 1

\* s.find(pat): the 0-based position of the first occurrence, or npos
Find(s, pat) ==
    LET hits == {i \in 0..(Len(s) - Len(pat)) :
                    SubSeq(s, i + 1, i + Len(pat)) = pat}
    IN IF hits = {} THEN Npos
       ELSE CHOOSE i \in hits : \A j \in hits : i <= j

\* s.substr(pos, count); count = Npos (or a negative difference, which wraps
\* to a huge size_t) takes the rest. Throws std::out_of_range if pos > size.
SubstrThrows(s, pos) == pos > Len(s)

Substr(s, pos, count) ==
    LET n == IF count < 0 THEN Len(s) - pos ELSE Min(count, Len(s) - pos)
    IN SubSeq(s, pos + 1, pos + n)

\* s.find_first_not_of(" \t\n\r") and s.find_last_not_of(" \t\n\r")
FindFirstNotOf(s) ==
    LET keep == {i \in 0..(Len(s) - 1) : s[i + 1] \notin TrimSet}
    IN IF keep = {} THEN Npos ELSE CHOOSE i \in keep : \A j \in keep : i <= j

FindLastNotOf(s) ==
    LET keep == {i \in 0..(Len(s) - 1) : s[i + 1] \notin TrimSet}
    IN IF keep = {} THEN Npos ELSE CHOOSE i \in keep : \A j \in keep : i >= j

\* s.erase(0, n): n = npos erases everything
EraseFront(s, n) == IF n = Npos THEN <<>> ELSE SubSeq(s, n + 1, Len(s))

\* s.erase(pos): drops everything from pos on
EraseFrom(s, pos) == SubSeq(s, 1, pos)

\* the two erase calls applied to key and to value in load_config
Trim(s) ==
    LET t == EraseFront(s, FindFirstNotOf(s))
    IN EraseFrom(t, FindLastNotOf(t) + 1)

\* line.find(prefix) == 0
StartsWith(s, pfx) == Len(s) >= Len(pfx) /\ SubSeq(s, 1, Len(pfx)) = pfx

RECURSIVE DigitsValue(_)
DigitsValue(ds) ==
    IF ds = <<>> THEN 0
    ELSE 10 * DigitsValue(SubSeq(ds, 1, Len(ds) - 1)) + DigitVal(ds[Len(ds)])

RECURSIVE SkipSpace(_)
SkipSpace(s) ==
    IF s # <<>> /\ s[1] \in SpaceSet THEN SkipSpace(Tail(s)) ELSE s

RECURSIVE SkipZeros(_)
SkipZeros(s) ==
    IF s # <<>> /\ s[1] = "0" THEN SkipZeros(Tail(s)) ELSE s

RECURSIVE LeadingDigits(_)
LeadingDigits(s) ==
    IF s # <<>> /\ IsDigit(s[1]) THEN <<s[1]>> \o LeadingDigits(Tail(s)) ELSE <<>>

\* std::stoi(s): skips leading white space, takes an optional sign and the
\* longest run of digits, ignores what follows; throws std::invalid_argument
\* when there is no digit and std::out_of_range when the value is no int.
\* Result: [ok |-> FALSE] for a throw, [ok |-> TRUE, val |-> n] otherwise.
\* sig: the digits without leading zeros; neg: a minus sign came first
FitsInt(sig, neg) ==
    \/ Len(sig) <= 9
    \/ /\ Len(sig) = 10
       /\ \/ DigitsValue(SubSeq(sig, 1, 9)) < IntMax \div 10
          \/ /\ DigitsValue(SubSeq(sig, 1, 9)) = IntMax \div 10
             /\ DigitVal(sig[10]) <= (IntMax % 10) + (IF neg THEN 1 ELSE 0)

StoiDigits(sig, neg, any) ==
    IF ~any \/ ~FitsInt(sig, neg) THEN [ok |-> FALSE, val |-> 0]
    ELSE [ok |-> TRUE, val |-> IF neg THEN 0 - DigitsValue(sig) ELSE DigitsValue(sig)]

StoiSigned(neg, body) ==
    StoiDigits(SkipZeros(LeadingDigits(body)), neg, body # <<>> /\ IsDigit(body[1]))

StoiTrimmed(t) ==
    StoiSigned(t # <<>> /\ t[1] = "-",
               IF t # <<>> /\ t[1] \in {"-", "+"} THEN Tail(t) ELSE t)

Stoi(s) == StoiTrimmed(SkipSpace(s))

----------------------------------------------------------------------------
(* Time of day *)

\* TimeLapse::time_to_seconds. std::stoi and substr throw on malformed text;
\* nothing in run() catches that, so the exception reaches main().
\* Result: [ok |-> FALSE] for a throw, [ok |-> TRUE, val |-> seconds] otherwise.
TimeOf(time_str, hour, minute, second) ==
    IF \/ ~hour.ok
       \/ SubstrThrows(time_str, 3) \/ ~minute.ok
       \/ SubstrThrows(time_str, 6) \/ ~second.ok
    THEN [ok |-> FALSE, val |-> 0]
    ELSE [ok |-> TRUE, val |-> hour.val * 3600 + minute.val * 60 + second.val]

time_to_seconds(time_str) ==
    TimeOf(time_str, Stoi(Substr(time_str, 0, 2)), Stoi(Substr(time_str, 3, 2)),
           Stoi(Substr(time_str, 6, 2)))

\* TimeLapse::get_current_day_seconds, for the wall clock at `ms` past midnight
get_current_day_seconds(ms) == (ms \div MsPerSecond) % DaySeconds

\* current_total_sec >= t, for a t that time_to_seconds gave
AtOrAfter(ms, t) == [ok |-> t.ok, val |-> t.ok /\ get_current_day_seconds(ms) >= t.val]

\* TimeLapse::is_time_to_start / is_time_to_stop: [ok, val], ok = FALSE for a throw
is_time_to_start(ms, start) == AtOrAfter(ms, time_to_seconds(start))

\* a stop test that lets the tick at the end time run
is_time_to_stop_Strict(ms, end) ==
    AtOrAfter(ms - MsPerSecond, time_to_seconds(end))

is_time_to_stop(ms, end) == AtOrAfter(ms, time_to_seconds(end))

\* the three outcomes of such a test
Threw(r)  == ~r.ok
Holds(r)  == r.ok /\ r.val
Fails(r)  == r.ok /\ ~r.val

----------------------------------------------------------------------------
(* The two text sources *)

\* a file that cannot be opened, and a file with the given lines
NoFile == [exists |-> FALSE, lines |-> <<>>]
File(lines) == [exists |-> TRUE, lines |-> lines]

CaptureCommandKey ==
    <<"c", "a", "p", "t", "u", "r", "e", "_", "c", "o", "m", "m", "a", "n", "d">>
IdKey == <<"i", "d">>

DatePfx     == <<"D", "a", "t", "e", ":", " ">>
StartPfx    == <<"S", "t", "a", "r", "t", ":", " ">>
EndPfx      == <<"E", "n", "d", ":", " ">>
IntervalPfx == <<"I", "n", "t", "e", "r", "v", "a", "l", ":", " ">>
ExpectedPfx ==
    <<"E", "x", "p", "e", "c", "t", "e", "d", " ", "p", "h", "o", "t", "o", "s", ":", " ">>
SecondsSfx  == <<" ", "s", "e", "c", "o", "n", "d", "s">>

\* the two `if (key == ...)` of load_config, on st = [cmd, id, log]
ConfigAssignId(st, key, value) ==
    IF key = IdKey
    THEN [st EXCEPT !.id = value, !.log = Append(@, "Loaded config: device_id")]
    ELSE st

ConfigAssign(st, key, value) ==
    ConfigAssignId(
        IF key = CaptureCommandKey
        THEN [st EXCEPT !.cmd = value,
                        !.log = Append(@, "Loaded config: capture_command")]
        ELSE st,
        key, value)

\* one line of conf/timelapse.conf
ConfigSplit(st, line, equals_pos) ==
    IF equals_pos = Npos THEN st
    ELSE ConfigAssign(st, Trim(Substr(line, 0, equals_pos)),
                      Trim(Substr(line, equals_pos + 1, Npos)))

ConfigLine(st, line) == ConfigSplit(st, line, Find(line, <<"=">>))

RECURSIVE ConfigLines(_, _)
ConfigLines(lines, st) ==
    IF lines = <<>> THEN st
    ELSE ConfigLines(Tail(lines), ConfigLine(st, Head(lines)))

\* a loader without the final test
CommandLoaded_Always(cmd) == TRUE

\* the emptiness test that ends load_config
CommandLoaded(cmd) == cmd # <<>>

ConfigResult(st) ==
    IF ~CommandLoaded(st.cmd)
    THEN [ok |-> FALSE, cmd |-> st.cmd, id |-> st.id,
          log |-> Append(st.log, "ERROR: 'capture_command' not found")]
    ELSE [ok |-> TRUE, cmd |-> st.cmd, id |-> st.id, log |-> st.log]

\* TimeLapse::load_config on the content of the config file (NoFile: cannot be
\* opened). The members start as empty strings.
load_config(file) ==
    IF ~file.exists
    THEN [ok |-> FALSE, cmd |-> <<>>, id |-> <<>>,
          log |-> <<"ERROR: Could not find config file">>]
    ELSE ConfigResult(ConfigLines(file.lines, [cmd |-> <<>>, id |-> <<>>, log |-> <<>>]))

\* the text given to std::stoi in the Interval branch
IntervalText(line, start, end) ==
    IF end # Npos THEN Substr(line, start, end - start) ELSE Substr(line, start, Npos)

\* the two try blocks, on st; n: what std::stoi gave
IntervalAssign(st, n) ==
    IF ~n.ok
    THEN [st EXCEPT !.failed = TRUE,
                    !.log = Append(@, "Error: Could not parse interval time.")]
    ELSE [st EXCEPT !.interval_seconds = n.val]

ExpectedAssign(st, n) ==
    IF ~n.ok
    THEN [st EXCEPT !.failed = TRUE,
                    !.log = Append(@, "Error: Could not parse expected photos count.")]
    ELSE [st EXCEPT !.expected_photos = n.val]

\* one line of the schedule file, applied to
\* st = [date_str, start_time, end_time, interval_seconds, expected_photos,
\*       failed, log]; failed = TRUE is the `return false` of a catch block
ScheduleLine(st, line) ==
    IF StartsWith(line, DatePfx) THEN [st EXCEPT !.date_str = Substr(line, 6, Npos)]
    ELSE IF StartsWith(line, StartPfx)
    THEN [st EXCEPT !.start_time = Substr(line, 7, Npos)]
    ELSE IF StartsWith(line, EndPfx)
    THEN [st EXCEPT !.end_time = Substr(line, 5, Npos)]
    ELSE IF StartsWith(line, IntervalPfx)
    THEN IntervalAssign(st, Stoi(IntervalText(line, Find(line, <<":", " ">>) + 2,
                                              Find(line, SecondsSfx))))
    ELSE IF StartsWith(line, ExpectedPfx)
    THEN ExpectedAssign(st, Stoi(Substr(line, 17, Npos)))
    ELSE st

RECURSIVE ScheduleLines(_, _)
ScheduleLines(lines, st) ==
    IF lines = <<>> \/ st.failed THEN st
    ELSE ScheduleLines(Tail(lines), ScheduleLine(st, Head(lines)))

\* the test that ends load_today_schedule
EssentialDataMissing(st) ==
    \/ st.date_str = <<>> \/ st.start_time = <<>> \/ st.end_time = <<>>
    \/ st.interval_seconds <= 0

ScheduleResult(st) ==
    IF st.failed THEN st
    ELSE IF EssentialDataMissing(st)
    THEN [st EXCEPT !.failed = TRUE,
                    !.log = Append(@, "Error: Essential schedule data missing or invalid.")]
    ELSE [st EXCEPT !.log = Append(@, "Loaded schedule")]

\* TimeLapse::load_today_schedule on the content of today's schedule file.
\* interval0 and expected0 are the values the two int members hold on entry:
\* the constructor's initialiser list does not set them.
load_today_schedule(file, interval0, expected0) ==
    IF ~file.exists
    THEN [date_str |-> <<>>, start_time |-> <<>>, end_time |-> <<>>,
          interval_seconds |-> interval0, expected_photos |-> expected0,
          failed |-> TRUE,
          log |-> <<"Error: Could not find today's schedule file",
                    "Run the Python scheduler script first">>]
    ELSE ScheduleResult(
             ScheduleLines(file.lines,
                           [date_str |-> <<>>, start_time |-> <<>>, end_time |-> <<>>,
                            interval_seconds |-> interval0,
                            expected_photos |-> expected0,
                            failed |-> FALSE, log |-> <<>>]))

----------------------------------------------------------------------------
(* Inputs: the files found at start-up, the clock at start-up, and what the
   outside world answers at each tick *)

Text0900   == <<"0", "9", ":", "0", "0", ":", "0", "0">>
Text0902   == <<"0", "9", ":", "0", "2", ":", "0", "0">>
Text2359   == <<"2", "3", ":", "5", "9", ":", "0", "0">>
Text235950 == <<"2", "3", ":", "5", "9", ":", "5", "0">>
Text235959 == <<"2", "3", ":", "5", "9", ":", "5", "9">>
TextSoon   == <<"s", "o", "o", "n">>

DateLine      == DatePfx \o <<"2", "0", "2", "5", "-", "1", "1", "-", "1", "4">>
Interval30    == IntervalPfx \o <<"3", "0">> \o SecondsSfx
Interval0     == IntervalPfx \o <<"0">> \o SecondsSfx
IntervalSoon  == IntervalPfx \o TextSoon
Expected4     == ExpectedPfx \o <<"4">>

\* Start=09:00:00, End=09:02:00, Interval=30
SchedMorning ==
    File(<<DateLine, StartPfx \o Text0900, EndPfx \o Text0902, Interval30, Expected4>>)
\* a same-day window that ends 10 s before midnight
SchedLate ==
    File(<<DateLine, StartPfx \o Text2359, EndPfx \o Text235950, Interval30, Expected4>>)
\* a window that starts in the last 30 s of the day
SchedLast ==
    File(<<DateLine, StartPfx \o Text235950, EndPfx \o Text235959, Interval30, Expected4>>)
SchedNoInterval ==
    File(<<DateLine, StartPfx \o Text0900, EndPfx \o Text0902, Expected4>>)
SchedZeroInterval ==
    File(<<DateLine, StartPfx \o Text0900, EndPfx \o Text0902, Interval0, Expected4>>)
SchedBadInterval ==
    File(<<DateLine, StartPfx \o Text0900, EndPfx \o Text0902, IntervalSoon, Expected4>>)
SchedNoDate ==
    File(<<StartPfx \o Text0900, EndPfx \o Text0902, Interval30, Expected4>>)
SchedEmptyEnd ==
    File(<<DateLine, StartPfx \o Text0900, EndPfx, Interval30, Expected4>>)
\* accepted by the loader although the times are no HH:MM:SS
SchedBadStart ==
    File(<<DateLine, StartPfx \o TextSoon, EndPfx \o Text0902, Interval30, Expected4>>)
SchedBadEnd ==
    File(<<DateLine, StartPfx \o Text0900, EndPfx \o TextSoon, Interval30, Expected4>>)

Schedules ==
    {NoFile, SchedMorning, SchedLate, SchedLast, SchedNoInterval, SchedZeroInterval,
     SchedBadInterval, SchedNoDate, SchedEmptyEnd, SchedBadStart, SchedBadEnd}

CmdLine   == CaptureCommandKey \o <<" ", "=", " ", "c", "a", "m">>
BlankCmd  == CaptureCommandKey \o <<"=", " ", "\t">>
IdLine    == IdKey \o <<"=", "p", "i">>
OtherLine == <<"f", "p", "s", "=", "2">>

ConfigGood    == File(<<CmdLine, IdLine>>)
ConfigNoCmd   == File(<<IdLine, OtherLine>>)
ConfigBlank   == File(<<IdLine, BlankCmd>>)
\* a later empty assignment overrides an earlier good one
ConfigCleared == File(<<CmdLine, BlankCmd>>)

Configs == {NoFile, ConfigGood, ConfigNoCmd, ConfigBlank, ConfigCleared}

\* the wall clock at process start, ms past midnight: 08:59:45, 09:00:00, 23:59:00
LaunchTimes == {32385000, 32400000, 86340000}

\* what an int member that was never assigned may hold
IndeterminateInts == {-1, 0, 30}

\* One tick's answers from outside: the value std::system returns (-1: the
\* shell could not be run; otherwise a wait status, exit code in bits 8..15),
\* the time the call took, whether it left a readable image file, and whether
\* the status file can be opened afterwards.
TickInputs ==
    {[result |-> 0,   latency_ms |-> 0,     readable |-> TRUE,  status_ok |-> TRUE],
     [result |-> 0,   latency_ms |-> 1500,  readable |-> FALSE, status_ok |-> TRUE],
     [result |-> 256, latency_ms |-> 1500,  readable |-> FALSE, status_ok |-> FALSE],
     [result |-> -1,  latency_ms |-> 0,     readable |-> FALSE, status_ok |-> TRUE],
     [result |-> 0,   latency_ms |-> 40000, readable |-> TRUE,  status_ok |-> FALSE]}

\* the latencies followed when only the control flow is modelled
LiveLatencies == {0, 60000}

----------------------------------------------------------------------------
(* State *)

VARIABLES
    \* the outside world at start-up (never changed by the program)
    config_file,        \* content of conf/timelapse.conf
    schedule_file,      \* content of today's schedule file
    launch_ms,          \* wall clock when the process started
    \* the wall clock
    clock_ms,           \* time of day in ms, wraps at midnight
    day,                \* midnights crossed since the launch day
    \* control
    pc,                 \* where main() is
    exit_code,          \* what main() returned, once pc = "exited"
    capture_duration,   \* run()'s local capture_duration.count(), whole seconds
    \* members of TimeLapse
    photo_count, photo_files, base_capture_command, device_id,
    date_str, start_time, end_time, interval_seconds, expected_photos,
    capture_errors, last_capture_duration_ms, last_capture_success,
    last_capture_epoch,
    \* effects on the outside world
    dirs,               \* directories create_dir() has made or found
    log,                \* the messages given to log_status, in order
    status_writes,      \* the calls of write_status_file, in order
    attempts,           \* the calls of std::system, in order
    video,              \* what create_video() made
    polls               \* 30 s sleeps done in the Waiting loop

envVars == <<config_file, schedule_file, launch_ms>>

\* what decides run()'s control flow
ctlVars == <<pc, exit_code, clock_ms, capture_duration,
             start_time, end_time, interval_seconds>>

\* counters, records and outputs; no guard of run() reads them
dataVars == <<day, photo_count, photo_files, base_capture_command, device_id,
              date_str, expected_photos, capture_errors,
              last_capture_duration_ms, last_capture_success,
              last_capture_epoch, dirs, log, status_writes, attempts, video,
              polls>>

vars == <<envVars, ctlVars, dataVars>>

NoVideo == [made |-> FALSE, opened |-> FALSE, iterated |-> <<>>, frames |-> <<>>,
            size_from |-> <<>>, length_frames |-> 0, length_fps |-> Fps]

\* The state when main() starts: the members as the constructor's initialiser
\* list leaves them. interval_seconds and expected_photos are not in that list.
Init ==
    /\ config_file \in Configs
    /\ schedule_file \in Schedules
    /\ launch_ms \in LaunchTimes
    /\ clock_ms = launch_ms
    /\ day = 0
    /\ pc = "main"
    /\ exit_code = 0
    /\ capture_duration = 0
    /\ photo_count = 0
    /\ photo_files = <<>>
    /\ base_capture_command = <<>>
    /\ device_id = <<>>
    /\ date_str = <<>>
    /\ start_time = <<>>
    /\ end_time = <<>>
    /\ interval_seconds \in IndeterminateInts
    /\ expected_photos \in IndeterminateInts
    /\ capture_errors = 0
    /\ last_capture_duration_ms = 0
    /\ last_capture_success = FALSE
    /\ last_capture_epoch = 0
    /\ dirs = {}
    /\ log = <<>>
    /\ status_writes = <<>>
    /\ attempts = <<>>
    /\ video = NoVideo
    /\ polls = 0

----------------------------------------------------------------------------
(* The clock *)

\* local midnight of the launch day, in seconds since the epoch
LaunchDayEpoch == 1763078400

Advance(ms, delta) == (ms + delta) % DayMs
Midnights(ms, delta) == (ms + delta) \div DayMs

\* system_clock::now() as seconds since the epoch
Epoch(d, ms) == LaunchDayEpoch + d * DaySeconds + ms \div MsPerSecond

----------------------------------------------------------------------------
(* Status Reporter *)

\* a snapshot of the members as they were before the step
Snapshot_Stale(status, cnt, errs, succ, epoch, dur, now) ==
    [status |-> status, device_id |-> device_id, date |-> date_str,
     photos_captured |-> photo_count, expected_photos |-> expected_photos,
     capture_errors |-> capture_errors,
     last_capture_success |-> last_capture_success,
     last_capture_timestamp |-> last_capture_epoch,
     last_capture_duration_ms |-> last_capture_duration_ms,
     start_time |-> start_time, end_time |-> end_time,
     interval_seconds |-> interval_seconds, updated_at |-> now]

\* the JSON object write_status_file composes from the members
Snapshot(status, cnt, errs, succ, epoch, dur, now) ==
    [status |-> status, device_id |-> device_id, date |-> date_str,
     photos_captured |-> cnt, expected_photos |-> expected_photos,
     capture_errors |-> errs, last_capture_success |-> succ,
     last_capture_timestamp |-> epoch, last_capture_duration_ms |-> dur,
     start_time |-> start_time, end_time |-> end_time,
     interval_seconds |-> interval_seconds, updated_at |-> now]

\* TimeLapse::write_status_file on io = [log, status_writes]; ok: the file
\* could be opened. A failed write logs a warning and changes nothing else.
write_status_file(io, snap, ok) ==
    IF ok
    THEN [io EXCEPT !.status_writes = Append(@, [written |-> TRUE, snap |-> snap])]
    ELSE [log |-> Append(io.log, "Warning: Could not write status file"),
          status_writes |-> Append(io.status_writes, [written |-> FALSE, snap |-> snap])]

\* the snapshot of the members as they are now
CurrentSnapshot(status) ==
    Snapshot(status, photo_count, capture_errors, last_capture_success,
             last_capture_epoch, last_capture_duration_ms, Epoch(day, clock_ms))

----------------------------------------------------------------------------
(* Construction: main() up to the call of run() *)

DirFailures == {"none", LOGS_PATH, PICS_PATH, VIDEOS_PATH, OUTPUT_DIR}

\* the point at which the constructor throws, or "ok"
SetupStage(bad, cfg, sch) ==
    IF bad = LOGS_PATH THEN "logs"
    ELSE IF bad = PICS_PATH THEN "pics"
    ELSE IF bad = VIDEOS_PATH THEN "videos"
    ELSE IF ~cfg.ok THEN "config"
    ELSE IF sch.failed THEN "schedule"
    ELSE IF bad = OUTPUT_DIR THEN "output"
    ELSE "ok"

\* the constructor's effects; bad: the directory whose mkdir fails, if any,
\* cfg and sch: what load_config and load_today_schedule give
Constructed(bad, cfg, sch) ==
    LET stage        == SetupStage(bad, cfg, sch)
        configRead   == stage \notin {"logs", "pics", "videos"}
        scheduleRead == stage \notin {"logs", "pics", "videos", "config"}
    IN /\ dirs' = (IF stage # "logs" THEN {LOGS_PATH} ELSE {})
                  \cup (IF stage \notin {"logs", "pics"} THEN {PICS_PATH} ELSE {})
                  \cup (IF configRead THEN {VIDEOS_PATH} ELSE {})
                  \cup (IF stage = "ok" THEN {OUTPUT_DIR} ELSE {})
       /\ base_capture_command' = IF configRead THEN cfg.cmd ELSE base_capture_command
       /\ device_id' = IF configRead THEN cfg.id ELSE device_id
       /\ date_str' = IF scheduleRead THEN sch.date_str ELSE date_str
       /\ start_time' = IF scheduleRead THEN sch.start_time ELSE start_time
       /\ end_time' = IF scheduleRead THEN sch.end_time ELSE end_time
       /\ interval_seconds' =
             IF scheduleRead THEN sch.interval_seconds ELSE interval_seconds
       /\ expected_photos' =
             IF scheduleRead THEN sch.expected_photos ELSE expected_photos
       /\ log' = log \o (IF configRead THEN cfg.log ELSE <<>>)
                     \o (IF scheduleRead THEN sch.log ELSE <<>>)
                     \o (IF stage = "ok"
                         THEN <<"TimeLapse initialized", "Today's schedule:",
                                "  Date", "  Capture", "  Interval",
                                "  Expected photos">>
                         ELSE <<>>)
       /\ pc' = IF stage = "ok" THEN "run" ELSE "exited"
       /\ exit_code' = IF stage = "ok" THEN exit_code ELSE 1

\* TimeLapse::TimeLapse() and main()'s catch clauses
TimeLapse ==
    /\ pc = "main"
    /\ \E bad \in DirFailures :
       \E cfg \in {load_config(config_file)} :
       \E sch \in {load_today_schedule(schedule_file, interval_seconds,
                                       expected_photos)} :
           Constructed(bad, cfg, sch)
    /\ UNCHANGED <<envVars, clock_ms, day, capture_duration, photo_count,
                   photo_files, capture_errors, last_capture_duration_ms,
                   last_capture_success, last_capture_epoch, status_writes,
                   attempts, video, polls>>

----------------------------------------------------------------------------
(* Capture Executor *)

RECURSIVE ToDigits(_)
ToDigits(n) ==
    IF n < 10 THEN <<Digits[n + 1]>>
    ELSE ToDigits(n \div 10) \o <<Digits[(n % 10) + 1]>>

RECURSIVE PadLeft(_, _)
PadLeft(ds, width) == IF Len(ds) >= width THEN ds ELSE PadLeft(<<"0">> \o ds, width)

\* output_dir + filename_prefix + setfill('0') setw(4) photo_count + ".jpg";
\* the directory and the prefix are the same for every frame of a run
Filename(count) == PadLeft(ToDigits(count), 4) \o <<".", "j", "p", "g">>

\* WEXITSTATUS of a wait status
WEXITSTATUS(result) == (result \div 256) % 256

\* photo_count++
CaptureCounted(m) == [m EXCEPT !.photo_count = @ + 1]

\* the file name, the command line, and the "Capturing photo" line that is
\* logged for photos 1, 11, 21, ...
CaptureNamed(m) ==
    [m EXCEPT !.filename = Filename(m.photo_count),
              !.log = IF m.photo_count % 10 = 1 \/ m.photo_count = 1
                      THEN <<"Capturing photo">> ELSE <<>>]

\* a failure that only forgets to count itself
CaptureFailure_NoCount(m, msg) ==
    [m EXCEPT !.last_capture_success = FALSE, !.log = @ \o <<msg>>, !.ret = FALSE]

\* a failure that still records the file it asked for
CaptureFailure_Push(m, msg) ==
    [m EXCEPT !.capture_errors = @ + 1,
              !.last_capture_success = FALSE,
              !.photo_files = Append(@, m.filename),
              !.log = @ \o <<msg>>,
              !.ret = FALSE]

\* the two failure branches: log, capture_errors++, return false
CaptureFailure(m, msg) ==
    [m EXCEPT !.capture_errors = @ + 1,
              !.last_capture_success = FALSE,
              !.log = @ \o <<msg>>,
              !.ret = FALSE]

\* a success that puts the newest frame first
CaptureSuccess_Front(m, now) ==
    [m EXCEPT !.last_capture_success = TRUE,
              !.last_capture_epoch = now,
              !.photo_files = <<m.filename>> \o @,
              !.log = @ \o (IF m.photo_count % 10 # 1 /\ m.photo_count # 1
                            THEN <<"Photo captured successfully">> ELSE <<>>),
              !.ret = TRUE]

\* the success branch: exit code 0
CaptureSuccess(m, now) ==
    [m EXCEPT !.last_capture_success = TRUE,
              !.last_capture_epoch = now,
              !.photo_files = Append(@, m.filename),
              !.log = @ \o (IF m.photo_count % 10 # 1 /\ m.photo_count # 1
                            THEN <<"Photo captured successfully">> ELSE <<>>),
              !.ret = TRUE]

\* the error checking after std::system
CaptureClassify(m, result, now) ==
    IF result = -1
    THEN CaptureFailure(m, "FATAL ERROR: Failed to execute shell command")
    ELSE IF WEXITSTATUS(result) # 0
    THEN CaptureFailure(m, "COMMAND ERROR: Capture failed")
    ELSE CaptureSuccess(m, now)

\* TimeLapse::capture_photo. m: the members it reads, result: what
\* std::system returned, now: the epoch second when it returned. Gives the
\* members' new values, the file named on the command line, the messages
\* logged and the return value.
capture_photo(m, result, now) ==
    CaptureClassify(CaptureNamed(CaptureCounted(m)), result, now)

\* the members capture_photo works on, as they are now
Members ==
    [photo_count |-> photo_count, photo_files |-> photo_files,
     capture_errors |-> capture_errors,
     last_capture_success |-> last_capture_success,
     last_capture_epoch |-> last_capture_epoch, filename |-> <<>>,
     log |-> <<>>, ret |-> FALSE]

----------------------------------------------------------------------------
(* Video Assembler *)

\* cv::imread(file) gives a non-empty image: the capture that wrote the file
\* left a readable image
Decodes(file) == \E i \in 1..Len(attempts) : attempts[i].file = file /\ attempts[i].readable

\* the progress lines of the loop, one for every written frame i with
\* i % 100 == 0 && i != 0
ProgressLog(files) ==
    [k \in 1..Cardinality({i \in 1..(Len(files) - 1) :
                              i % 100 = 0 /\ Decodes(files[i + 1])})
        |-> "Video progress"]

\* an assembler that opens its writer before it looks at the frame list
create_video_Eager(files, opens) ==
    IF ~opens
    THEN [video |-> NoVideo, log |-> <<"Error creating cv::VideoWriter!">>]
    ELSE [video |-> [made |-> TRUE, opened |-> TRUE, iterated |-> files,
                     frames |-> SelectSeq(files, Decodes),
                     size_from |-> IF files = <<>> THEN <<>> ELSE files[1],
                     length_frames |-> Len(files), length_fps |-> Fps],
          log |-> <<"Video saved">>]

\* TimeLapse::create_video on photo_files; opens: cv::VideoWriter could open
\* the output file. Gives the video made (size_from: the file whose image
\* gives the frame size) and the messages logged.
create_video(files, opens) ==
    IF files = <<>>
    THEN [video |-> NoVideo, log |-> <<"No photos to create video from! Skipping.">>]
    ELSE IF ~Decodes(files[1])
    THEN [video |-> NoVideo,
          log |-> <<"Creating video", "Error reading first image!">>]
    ELSE IF ~opens
    THEN [video |-> NoVideo,
          log |-> <<"Creating video", "Error creating cv::VideoWriter!">>]
    ELSE [video |-> [made |-> TRUE, opened |-> TRUE, iterated |-> files,
                     frames |-> SelectSeq(files, Decodes),
                     size_from |-> files[1],
                     length_frames |-> Len(files), length_fps |-> Fps],
          log |-> <<"Creating video">> \o ProgressLog(files)
                  \o <<"Video saved", "Actual video length",
                       "Video compilation finished!">>]

----------------------------------------------------------------------------
(* TimeLapse::run, one action per step between two blocking calls. Each step
   is written as its effect on the control state (..Ctl) and its effect on the
   counters, records and outputs (..Data). *)

\* entry of run(): the first log line and the "waiting" status
RunBeginCtl ==
    /\ pc = "run"
    /\ pc' = "waiting"
    /\ UNCHANGED <<exit_code, clock_ms, capture_duration, start_time, end_time,
                   interval_seconds>>

RunBeginData(ok) ==
    LET io == write_status_file(
                  [log |-> Append(log, "Waiting for start time"),
                   status_writes |-> status_writes],
                  CurrentSnapshot("waiting"), ok)
    IN /\ log' = io.log
       /\ status_writes' = io.status_writes
       /\ UNCHANGED <<day, photo_count, photo_files, base_capture_command,
                      device_id, date_str, expected_photos, capture_errors,
                      last_capture_duration_ms, last_capture_success,
                      last_capture_epoch, dirs, attempts, video, polls>>

RunBegin == RunBeginCtl /\ (\E ok \in BOOLEAN : RunBeginData(ok)) /\ UNCHANGED envVars

\* time_to_seconds throws inside is_time_to_start or is_time_to_stop: the
\* exception leaves run() and main() returns 1 from catch (std::exception)
RunThrowCtl ==
    /\ \/ pc = "waiting" /\ Threw(is_time_to_start(clock_ms, start_time))
       \/ pc = "loop_check" /\ Threw(is_time_to_stop(clock_ms, end_time))
    /\ pc' = "exited"
    /\ exit_code' = 1
    /\ UNCHANGED <<clock_ms, capture_duration, start_time, end_time, interval_seconds>>

RunThrow == RunThrowCtl /\ UNCHANGED <<envVars, dataVars>>

\* while (!is_time_to_start()) sleep_for(30 s)
RunWaitSleepCtl ==
    /\ pc = "waiting"
    /\ Fails(is_time_to_start(clock_ms, start_time))
    /\ clock_ms' = Advance(clock_ms, PollSleepSeconds * MsPerSecond)
    /\ UNCHANGED <<pc, exit_code, capture_duration, start_time, end_time,
                   interval_seconds>>

RunWaitSleepData ==
    /\ polls < MaxPolls
    /\ polls' = polls + 1
    /\ day' = day + Midnights(clock_ms, PollSleepSeconds * MsPerSecond)
    /\ UNCHANGED <<photo_count, photo_files, base_capture_command, device_id,
                   date_str, expected_photos, capture_errors,
                   last_capture_duration_ms, last_capture_success,
                   last_capture_epoch, dirs, log, status_writes, attempts, video>>

RunWaitSleep == RunWaitSleepCtl /\ RunWaitSleepData /\ UNCHANGED envVars

\* the Waiting loop ends: log line and the first "capturing" status
RunStartCapturingCtl ==
    /\ pc = "waiting"
    /\ Holds(is_time_to_start(clock_ms, start_time))
    /\ pc' = "loop_check"
    /\ UNCHANGED <<exit_code, clock_ms, capture_duration, start_time, end_time,
                   interval_seconds>>

RunStartCapturingData(ok) ==
    LET io == write_status_file(
                  [log |-> Append(log, "Starting automated timelapse capture!"),
                   status_writes |-> status_writes],
                  CurrentSnapshot("capturing"), ok)
    IN /\ log' = io.log
       /\ status_writes' = io.status_writes
       /\ UNCHANGED <<day, photo_count, photo_files, base_capture_command,
                      device_id, date_str, expected_photos, capture_errors,
                      last_capture_duration_ms, last_capture_success,
                      last_capture_epoch, dirs, attempts, video, polls>>

RunStartCapturing ==
    RunStartCapturingCtl /\ (\E ok \in BOOLEAN : RunStartCapturingData(ok))
    /\ UNCHANGED envVars

\* while (!is_time_to_stop()): the test passes, the loop body is entered
RunLoopEnterCtl ==
    /\ pc = "loop_check"
    /\ Fails(is_time_to_stop(clock_ms, end_time))
    /\ pc' = "capture"
    /\ UNCHANGED <<exit_code, clock_ms, capture_duration, start_time, end_time,
                   interval_seconds>>

RunLoopEnter == RunLoopEnterCtl /\ UNCHANGED <<envVars, dataVars>>

\* a loop that, at its end, goes back to wait for the next start
RunLoopExitCtl_Back ==
    /\ pc = "loop_check"
    /\ Holds(is_time_to_stop(clock_ms, end_time))
    /\ pc' = "waiting"
    /\ UNCHANGED <<exit_code, clock_ms, capture_duration, start_time, end_time,
                   interval_seconds>>

\* the loop ends: two log lines and the "creating_video" status
RunLoopExitCtl ==
    /\ pc = "loop_check"
    /\ Holds(is_time_to_stop(clock_ms, end_time))
    /\ pc' = "assembling"
    /\ UNCHANGED <<exit_code, clock_ms, capture_duration, start_time, end_time,
                   interval_seconds>>

RunLoopExitData(ok) ==
    LET io == write_status_file(
                  [log |-> log \o <<"Scheduled capture complete!", "Expected">>,
                   status_writes |-> status_writes],
                  CurrentSnapshot("creating_video"), ok)
    IN /\ log' = io.log
       /\ status_writes' = io.status_writes
       /\ UNCHANGED <<day, photo_count, photo_files, base_capture_command,
                      device_id, date_str, expected_photos, capture_errors,
                      last_capture_duration_ms, last_capture_success,
                      last_capture_epoch, dirs, attempts, video, polls>>

RunLoopExit ==
    RunLoopExitCtl /\ (\E ok \in BOOLEAN : RunLoopExitData(ok)) /\ UNCHANGED envVars

\* a loop body that does not wait for the capture process to exit
RunCaptureCtl_NoWait(d) ==
    /\ pc = "capture"
    /\ pc' = "sleep"
    /\ clock_ms' = clock_ms
    /\ capture_duration' = d \div MsPerSecond
    /\ UNCHANGED <<exit_code, start_time, end_time, interval_seconds>>

\* one loop body up to the sleep: capture_photo, the measured duration, the
\* "capturing" status. d: the time std::system took, in ms
RunCaptureCtl(d) ==
    /\ pc = "capture"
    /\ pc' = "sleep"
    /\ clock_ms' = Advance(clock_ms, d)
    /\ capture_duration' = d \div MsPerSecond
    /\ UNCHANGED <<exit_code, start_time, end_time, interval_seconds>>

\* a loop body that counts a status file it could not write as a capture error
CaptureRecorded_WriteCounts(in, r, end_day, end_ms) ==
    LET io == write_status_file(
                  [log |-> log \o r.log
                           \o (IF r.ret THEN <<>>
                               ELSE <<"Failed to capture photo, continuing...">>),
                   status_writes |-> status_writes],
                  Snapshot("capturing", r.photo_count, r.capture_errors,
                           r.last_capture_success, r.last_capture_epoch,
                           in.latency_ms, Epoch(end_day, end_ms)),
                  in.status_ok)
    IN /\ photo_count' = r.photo_count
       /\ photo_files' = r.photo_files
       /\ capture_errors' = r.capture_errors + (IF in.status_ok THEN 0 ELSE 1)
       /\ last_capture_success' = r.last_capture_success
       /\ last_capture_epoch' = r.last_capture_epoch
       /\ last_capture_duration_ms' = in.latency_ms
       /\ day' = end_day
       /\ log' = io.log
       /\ status_writes' = io.status_writes
       /\ attempts' = Append(attempts,
                             [file |-> r.filename, result |-> in.result,
                              latency_ms |-> in.latency_ms,
                              readable |-> in.readable,
                              at_ms |-> clock_ms, at_day |-> day])
       /\ UNCHANGED <<base_capture_command, device_id, date_str,
                      expected_photos, dirs, video, polls>>

\* r: what capture_photo gave; end_day, end_ms: the clock when it returned
CaptureRecorded(in, r, end_day, end_ms) ==
    LET io == write_status_file(
                  [log |-> log \o r.log
                           \o (IF r.ret THEN <<>>
                               ELSE <<"Failed to capture photo, continuing...">>),
                   status_writes |-> status_writes],
                  Snapshot("capturing", r.photo_count, r.capture_errors,
                           r.last_capture_success, r.last_capture_epoch,
                           in.latency_ms, Epoch(end_day, end_ms)),
                  in.status_ok)
    IN /\ photo_count' = r.photo_count
       /\ photo_files' = r.photo_files
       /\ capture_errors' = r.capture_errors
       /\ last_capture_success' = r.last_capture_success
       /\ last_capture_epoch' = r.last_capture_epoch
       /\ last_capture_duration_ms' = in.latency_ms
       /\ day' = end_day
       /\ log' = io.log
       /\ status_writes' = io.status_writes
       /\ attempts' = Append(attempts,
                             [file |-> r.filename, result |-> in.result,
                              latency_ms |-> in.latency_ms,
                              readable |-> in.readable,
                              at_ms |-> clock_ms, at_day |-> day])
       /\ UNCHANGED <<base_capture_command, device_id, date_str,
                      expected_photos, dirs, video, polls>>

RunCaptureData(in) ==
    /\ photo_count < MaxTicks
    /\ \E end_day \in {day + Midnights(clock_ms, in.latency_ms)} :
       \E end_ms \in {Advance(clock_ms, in.latency_ms)} :
       \E r \in {capture_photo(Members, in.result, Epoch(end_day, end_ms))} :
           CaptureRecorded(in, r, end_day, end_ms)

RunCapture ==
    \E in \in TickInputs :
        RunCaptureCtl(in.latency_ms) /\ RunCaptureData(in) /\ UNCHANGED envVars

\* a sleep of the distance between the two, also when the capture was late
SleepSeconds_Abs(interval, duration) ==
    IF interval - duration > 0 THEN interval - duration ELSE duration - interval

\* auto sleep_time = interval_seconds - capture_duration.count(): the seconds
\* slept when sleep_time > 0, none otherwise
SleepSeconds(interval, duration) ==
    IF interval - duration > 0 THEN interval - duration ELSE 0

\* the else branch: the warning is logged
Drifted(interval, duration) == ~(interval - duration > 0)

\* the end of the loop body
RunSleepCtl ==
    /\ pc = "sleep"
    /\ pc' = "loop_check"
    /\ clock_ms' = Advance(clock_ms,
                           SleepSeconds(interval_seconds, capture_duration) * MsPerSecond)
    /\ UNCHANGED <<exit_code, capture_duration, start_time, end_time,
                   interval_seconds>>

RunSleepData ==
    /\ day' = day + Midnights(clock_ms,
                              SleepSeconds(interval_seconds, capture_duration) * MsPerSecond)
    /\ log' = IF Drifted(interval_seconds, capture_duration)
              THEN Append(log, "Warning: Capture took longer than interval!")
              ELSE log
    /\ UNCHANGED <<photo_count, photo_files, base_capture_command, device_id,
                   date_str, expected_photos, capture_errors,
                   last_capture_duration_ms, last_capture_success,
                   last_capture_epoch, dirs, status_writes, attempts, video,
                   polls>>

RunSleep == RunSleepCtl /\ RunSleepData /\ UNCHANGED envVars

\* create_video(), the "finished" status, the last log line; run() returns
\* and main() returns 0
RunAssembleCtl ==
    /\ pc = "assembling"
    /\ pc' = "exited"
    /\ exit_code' = 0
    /\ UNCHANGED <<clock_ms, capture_duration, start_time, end_time,
                   interval_seconds>>

\* v: what create_video gave
Assembled(v, ok) ==
    LET io == write_status_file([log |-> log \o v.log, status_writes |-> status_writes],
                                CurrentSnapshot("finished"), ok)
    IN /\ video' = v.video
       /\ log' = Append(io.log, "Automated timelapse thread finished.")
       /\ status_writes' = io.status_writes
       /\ UNCHANGED <<day, photo_count, photo_files, base_capture_command,
                      device_id, date_str, expected_photos, capture_errors,
                      last_capture_duration_ms, last_capture_success,
                      last_capture_epoch, dirs, attempts, polls>>

RunAssembleData(opens, ok) ==
    \E v \in {create_video(photo_files, opens)} : Assembled(v, ok)

RunAssemble ==
    RunAssembleCtl /\ (\E opens, ok \in BOOLEAN : RunAssembleData(opens, ok))
    /\ UNCHANGED envVars

----------------------------------------------------------------------------
(* The program *)

Next ==
    \/ TimeLapse
    \/ RunBegin
    \/ RunThrow
    \/ RunWaitSleep
    \/ RunStartCapturing
    \/ RunLoopEnter
    \/ RunLoopExit
    \/ RunCapture
    \/ RunSleep
    \/ RunAssemble

Spec == Init /\ [][Next]_vars

----------------------------------------------------------------------------
(* The control flow alone. No guard of run() reads a counter, a record or an
   output, so the same steps are taken with dataVars left as the constructor
   set them; the state space is then finite without a bound on the number of
   ticks, and whether the loops end can be checked. The single thread takes
   its next step whenever it has one (the clock advances, every external call
   returns). *)

LiveBegin         == RunBeginCtl /\ UNCHANGED <<envVars, dataVars>>
LiveWaitSleep     == RunWaitSleepCtl /\ UNCHANGED <<envVars, dataVars>>
LiveStartCapturing == RunStartCapturingCtl /\ UNCHANGED <<envVars, dataVars>>
LiveLoopExit      == RunLoopExitCtl /\ UNCHANGED <<envVars, dataVars>>
LiveCapture ==
    \E d \in LiveLatencies : RunCaptureCtl(d) /\ UNCHANGED <<envVars, dataVars>>
LiveSleep         == RunSleepCtl /\ UNCHANGED <<envVars, dataVars>>
LiveAssemble      == RunAssembleCtl /\ UNCHANGED <<envVars, dataVars>>

LiveNext ==
    \/ TimeLapse
    \/ LiveBegin
    \/ RunThrow
    \/ LiveWaitSleep
    \/ LiveStartCapturing
    \/ RunLoopEnter
    \/ LiveLoopExit
    \/ LiveCapture
    \/ LiveSleep
    \/ LiveAssemble

\* where main() can be
PcValues == {"main", "run", "waiting", "loop_check", "capture", "sleep",
             "assembling", "exited"}

\* main() has not returned and moves on. Every step of LiveNext changes pc or
\* the clock, and one is possible whenever pc # "exited", so weak fairness of
\* this action on <<pc, clock_ms>> is weak fairness of LiveNext.
Progress ==
    /\ pc # "exited"
    /\ pc' \in PcValues
    /\ clock_ms' \in 0 .. (DayMs - 1)

LiveSpec == Init /\ [][LiveNext]_vars /\ WF_<<pc, clock_ms>>(Progress)

----------------------------------------------------------------------------
(* Vocabulary of the properties *)

IsPrefix(a, b) == Len(a) <= Len(b) /\ SubSeq(b, 1, Len(a)) = a

Last(seq) == seq[Len(seq)]

InLog(msg) == \E i \in 1..Len(log) : log[i] = msg

\* run() was entered
RunEntered == InLog("Waiting for start time")

\* the phase labels handed to write_status_file, in order
Labels == [i \in 1..Len(status_writes) |-> status_writes[i].snap.status]

\* a sequence without immediate repetitions
RECURSIVE Dedup(_)
Dedup(seq) ==
    IF Len(seq) <= 1 THEN seq
    ELSE IF seq[1] = seq[2] THEN Dedup(Tail(seq))
    ELSE <<seq[1]>> \o Dedup(Tail(seq))

\* Waiting, Capturing, Assembling, Finished as the status file names them
PhaseOrder == <<"waiting", "capturing", "creating_video", "finished">>

PhasesEntered == Dedup(Labels)

\* both times of the loaded schedule are HH:MM:SS
TimesParse == time_to_seconds(start_time).ok /\ time_to_seconds(end_time).ok

\* an attempt that could not be launched or exited non-zero
AttemptFailed(a) == a.result = -1 \/ (a.result \div 256) % 256 # 0

FailedAttempts == {i \in 1..Len(attempts) : AttemptFailed(attempts[i])}

IsSuccess(a) == ~AttemptFailed(a)

\* the files of the successful attempts, in the order of the attempts
SuccessFiles ==
    LET ok == SelectSeq(attempts, IsSuccess)
    IN [i \in 1..Len(ok) |-> ok[i].file]

----------------------------------------------------------------------------
(* C1 *)

----------------------------------------------------------------------------
(* C2 *)

\* the wall-clock time a step takes, in ms
Elapsed == (day' - day) * DayMs + clock_ms' - clock_ms

\* C2: in every loop iteration the sleep after the capture is exactly
\* max(0, I - d) seconds, d being the measured duration in whole seconds of
\* the capture just made; it is never negative; when d >= I nothing is slept
\* and the drift warning is logged, and otherwise no warning is logged.
C2_SleepIsRemainder ==
    [][pc = "sleep" =>
        /\ capture_duration = Last(attempts).latency_ms \div MsPerSecond
        /\ Elapsed = Max(0, interval_seconds - capture_duration) * MsPerSecond
        /\ Elapsed >= 0
        /\ capture_duration >= interval_seconds =>
              /\ Elapsed = 0
              /\ log' = Append(log, "Warning: Capture took longer than interval!")
        /\ capture_duration < interval_seconds => log' = log]_vars

\* back at the loop test after a late tick and after a tick that left time
C2_Witness ==
    /\ pc = "loop_check"
    /\ \E i, j \in 1..Len(attempts) :
          /\ attempts[i].latency_ms \div MsPerSecond >= interval_seconds
          /\ attempts[j].latency_ms > 0
          /\ attempts[j].latency_ms \div MsPerSecond < interval_seconds

----------------------------------------------------------------------------
(* C3 *)

\* C3: every call of capture_photo() raises the photo counter by exactly 1
\* and makes exactly one std::system call (no retry), whatever the outcome; a
\* tick that failed leaves photo_files as it was; and nothing but a tick
\* changes the counter.
C3_CounterPerTick ==
    [][/\ pc = "capture" =>
            /\ photo_count' = photo_count + 1
            /\ Len(attempts') = Len(attempts) + 1
            /\ SubSeq(attempts', 1, Len(attempts)) = attempts
            /\ AttemptFailed(Last(attempts')) => photo_files' = photo_files
       /\ pc # "capture" => photo_count' = photo_count /\ attempts' = attempts]_vars

\* all three outcomes have been seen
C3_Witness ==
    /\ pc = "sleep"
    /\ \E i, j, k \in 1..Len(attempts) :
          /\ attempts[i].result = -1
          /\ attempts[j].result # -1 /\ AttemptFailed(attempts[j])
          /\ IsSuccess(attempts[k])

----------------------------------------------------------------------------
(* C4 *)

\* C4: the frame sequence is at all times, and so when create_video() is
\* invoked, the files of the successful attempts in the order of the
\* attempts, each once; create_video() iterates exactly that sequence.
C4_FramesAreSuccessesInOrder ==
    /\ photo_files = SuccessFiles
    /\ \A i, j \in 1..Len(photo_files) : photo_files[i] = photo_files[j] => i = j
    /\ video.made => video.iterated = SuccessFiles

\* a video was made from a run in which a failure lies between two successes
C4_Witness ==
    /\ video.made
    /\ \E i, j, k \in 1..Len(attempts) :
          /\ i < j /\ j < k
          /\ IsSuccess(attempts[i]) /\ AttemptFailed(attempts[j])
          /\ IsSuccess(attempts[k])

----------------------------------------------------------------------------
(* C5 *)

----------------------------------------------------------------------------
(* C6 *)

\* 09:00:00 and 09:02:00 as ms past midnight
At0900 == 9 * 3600 * MsPerSecond
At0902 == At0900 + 120 * MsPerSecond

\* the scenario: Start=09:00:00, End=09:02:00, Interval=30, started at or
\* before 09:00:00, every capture so far a success with zero latency
MorningScenario ==
    /\ pc # "main"
    /\ start_time = Text0900 /\ end_time = Text0902 /\ interval_seconds = 30
    /\ launch_ms <= At0900
    /\ \A i \in 1..Len(attempts) :
          attempts[i].result = 0 /\ attempts[i].latency_ms = 0

\* the ticks are 30 s apart from `first` on, there are exactly 4 of them and 4
\* frames, and the loop is left 120 s after `first` without a fifth capture
FourTicksFrom(first) ==
    /\ \A i \in 1..Len(attempts) :
          attempts[i].at_ms = first + (i - 1) * 30 * MsPerSecond
    /\ Len(attempts) <= 4
    /\ pc = "capture" => Len(attempts) <= 3
    /\ pc = "assembling" =>
          /\ Len(attempts) = 4 /\ Len(photo_files) = 4
          /\ clock_ms = first + 120 * MsPerSecond
    /\ (pc = "exited" /\ RunEntered) => Len(attempts) = 4 /\ Len(photo_files) = 4

\* C6 as stated: in the scenario the ticks are at 09:00:00, 09:00:30, 09:01:00
\* and 09:01:30, 4 frames are captured and the loop is left at 09:02:00.
C6_TicksOnTheClock == MorningScenario => FourTicksFrom(At0900)

\* the first instant launch + k * 30 s, k >= 0, at or after 09:00:00: the
\* poll of the Waiting loop that sees the start time
FirstPollFrom0900 ==
    launch_ms
    + ((At0900 - launch_ms + PollSleepSeconds * MsPerSecond - 1)
       \div (PollSleepSeconds * MsPerSecond)) * PollSleepSeconds * MsPerSecond

\* C6 amended: in the scenario there are exactly 4 ticks and 4 frames, the
\* ticks are at s, s + 30 s, s + 60 s, s + 90 s and the loop is left at
\* s + 120 s without a fifth capture, s being the first poll of the Waiting
\* loop at or after 09:00:00 (09:00:00 itself only when the run started a
\* multiple of 30 s before it).
C6_FourTicksFromFirstPoll == MorningScenario => FourTicksFrom(FirstPollFrom0900)

\* the scenario, started at 08:59:45, with its loop just left
C6_Witness ==
    /\ MorningScenario /\ launch_ms = At0900 - 15 * MsPerSecond
    /\ pc = "assembling" /\ Len(attempts) = 4

----------------------------------------------------------------------------
(* C7 *)

\* the loaded window lies within one day: start <= end < 24:00:00
SameDayWindow ==
    /\ TimesParse
    /\ time_to_seconds(start_time).val <= time_to_seconds(end_time).val
    /\ time_to_seconds(end_time).val < DaySeconds

\* C7: once the capture loop has started with a same-day window, the loop is
\* eventually left and the run reaches Finished, whatever the interval and
\* the capture latencies.
C7_LoopTerminates ==
    (pc = "loop_check" /\ SameDayWindow) ~> (pc = "exited" /\ exit_code = 0)

----------------------------------------------------------------------------
(* C8 *)

\* C8: the process exits non-zero only for a setup failure, that is before
\* run() is entered; once run() has started nothing makes it exit non-zero.
C8_OnlySetupFailsTheProcess ==
    (pc = "exited" /\ exit_code # 0) => ~RunEntered

----------------------------------------------------------------------------
(* C9 *)

\* the lines of a file that start with a prefix, and the text after the
\* prefix on the last of them (empty when there is none)
LinesWith(f, pfx) == {i \in 1..Len(f.lines) : StartsWith(f.lines[i], pfx)}

FieldOf(f, pfx) ==
    IF LinesWith(f, pfx) = {} THEN <<>>
    ELSE LET i == CHOOSE i \in LinesWith(f, pfx) : \A j \in LinesWith(f, pfx) : j <= i
         IN SubSeq(f.lines[i], Len(pfx) + 1, Len(f.lines[i]))

\* a schedule file whose date, start or end is empty, or whose interval is
\* absent, no number or <= 0
ScheduleUnacceptable(f) ==
    \/ FieldOf(f, DatePfx) = <<>> \/ FieldOf(f, StartPfx) = <<>>
    \/ FieldOf(f, EndPfx) = <<>>
    \/ LinesWith(f, IntervalPfx) = {}
    \/ ~Stoi(FieldOf(f, IntervalPfx)).ok
    \/ Stoi(FieldOf(f, IntervalPfx)).val <= 0

\* C9: such a schedule is always rejected: the constructor throws, the
\* process exits with 1 and run() is never entered.
C9_BadScheduleRejected ==
    (pc # "main" /\ schedule_file.exists /\ ScheduleUnacceptable(schedule_file)) =>
        (pc = "exited" /\ exit_code = 1 /\ ~RunEntered)

----------------------------------------------------------------------------
(* C10 *)

\* the lines of a config file that assign capture_command
CommandLines(f) ==
    {i \in 1..Len(f.lines) :
        /\ Find(f.lines[i], <<"=">>) # Npos
        /\ Trim(SubSeq(f.lines[i], 1, Find(f.lines[i], <<"=">>))) = CaptureCommandKey}

\* a config file that exists and has no capture_command: the key is missing,
\* or its value is empty once trimmed
NoCaptureCommand(f) ==
    /\ f.exists
    /\ \A i \in CommandLines(f) :
          \A k \in (Find(f.lines[i], <<"=">>) + 2)..Len(f.lines[i]) :
              f.lines[i][k] \in TrimSet

\* C10: with such a config the load fails and the constructor throws before
\* the schedule is loaded: the process exits with 1, run() is never entered,
\* no schedule field is set, and no directory but logs, pics and videos
\* exists through this process; the per-run output directory is not created.
C10_NoCommandStopsSetup ==
    (pc # "main" /\ NoCaptureCommand(config_file)) =>
        /\ pc = "exited" /\ exit_code = 1
        /\ ~RunEntered
        /\ dirs \subseteq {LOGS_PATH, PICS_PATH, VIDEOS_PATH}
        /\ OUTPUT_DIR \notin dirs
        /\ date_str = <<>> /\ start_time = <<>> /\ end_time = <<>>
        /\ ~InLog("Loaded schedule")
        /\ ~InLog("Error: Essential schedule data missing or invalid.")
        /\ dirs = {LOGS_PATH, PICS_PATH, VIDEOS_PATH} =>
              InLog("ERROR: 'capture_command' not found")

\* the constructor has thrown on a blank capture_command, after the three
\* directories were made and with a good schedule waiting
C10_Witness ==
    /\ pc = "exited" /\ config_file = ConfigBlank /\ schedule_file = SchedMorning
    /\ dirs = {LOGS_PATH, PICS_PATH, VIDEOS_PATH}

----------------------------------------------------------------------------
(* C11 *)

\* C11: whatever create_video() meets (no frames, a first frame that does
\* not decode, a writer that cannot be opened, or success), the step that
\* runs it ends with the "finished" status written last, the last log line
\* and main() returning 0; and with no frames create_video() opens no writer
\* and makes no video: it only logs that it skips.
C11_FinishedWhateverAssemblyDoes ==
    [][pc = "assembling" =>
        /\ pc' = "exited" /\ exit_code' = 0
        /\ Len(status_writes') = Len(status_writes) + 1
        /\ Last(status_writes').snap.status = "finished"
        /\ Last(log') = "Automated timelapse thread finished."
        /\ photo_files = <<>> =>
              /\ video' = NoVideo
              /\ log'[Len(log) + 1] = "No photos to create video from! Skipping."
              /\ (Len(log') = Len(log) + 2 \/ Len(log') = Len(log) + 3)]_vars

\* a run that returned after its writer could not be opened
C11_Witness ==
    /\ pc = "exited" /\ exit_code = 0 /\ Last(Labels) = "finished"
    /\ photo_files # <<>> /\ ~video.made
    /\ InLog("Error creating cv::VideoWriter!")

----------------------------------------------------------------------------
(* Instants *)

\* ms since midnight of the launch day: now, and the start and the end of a
\* capture attempt
Now == day * DayMs + clock_ms
StartedAt(a) == a.at_day * DayMs + a.at_ms
EndedAt(a) == StartedAt(a) + a.latency_ms

\* the instant of the loop test that follows attempt a: its end plus the sleep
NextCheckAfter(a) ==
    EndedAt(a)
    + SleepSeconds(interval_seconds, a.latency_ms \div MsPerSecond) * MsPerSecond

\* the instant of the poll that ended the Waiting loop, which is also the
\* first test of the capture loop
WaitEnd == launch_ms + polls * PollSleepSeconds * MsPerSecond

\* the instant of the latest test of the capture loop
LastCheck == IF attempts = <<>> THEN WaitEnd ELSE NextCheckAfter(Last(attempts))

TimeOfDay(t) == t % DayMs

----------------------------------------------------------------------------
(* C12 *)

\* the phases a run at this point has entered, from the schedule alone
PhasesByPosition ==
    IF pc \in {"main", "run"} THEN <<>>
    ELSE IF pc = "waiting" THEN <<"waiting">>
    ELSE IF pc \in {"loop_check", "capture", "sleep"} THEN <<"waiting", "capturing">>
    ELSE IF pc = "assembling" THEN <<"waiting", "capturing", "creating_video">>
    ELSE IF exit_code = 0 THEN PhaseOrder
    ELSE IF ~RunEntered THEN <<>>
    ELSE IF ~time_to_seconds(start_time).ok THEN <<"waiting">>
    ELSE <<"waiting", "capturing">>

\* C12: the phases, the ticks, the counters and the frame sequence are a
\* function of the schedule, the clock and the capture outcomes alone, so two
\* runs that differ only in which status writes fail agree on them: the
\* phases follow from the position; the Waiting loop ends at the first poll
\* that sees the start; tick 1 starts then and every later tick at the end of
\* the tick before plus its sleep, each at a test that does not see the end;
\* the loop is left at the first test that sees the end; and the counters and
\* the frames are those of the attempts made.
C12_StatusWritesDoNotSteer ==
    /\ PhasesEntered = PhasesByPosition
    /\ photo_count = Len(attempts)
    /\ capture_errors = Cardinality(FailedAttempts)
    /\ photo_files = SuccessFiles
    /\ \A j \in 0..(polls - 1) :
          Fails(is_time_to_start(
                    TimeOfDay(launch_ms + j * PollSleepSeconds * MsPerSecond),
                    start_time))
    /\ pc \in {"loop_check", "capture", "sleep", "assembling"} =>
          Holds(is_time_to_start(TimeOfDay(WaitEnd), start_time))
    /\ \A i \in 1..Len(attempts) :
          /\ StartedAt(attempts[i]) =
                IF i = 1 THEN WaitEnd ELSE NextCheckAfter(attempts[i - 1])
          /\ Fails(is_time_to_stop(attempts[i].at_ms, end_time))
    /\ pc = "waiting" => Now = WaitEnd
    /\ pc \in {"loop_check", "capture", "assembling"} => Now = LastCheck
    /\ pc = "sleep" => Now = EndedAt(Last(attempts))
    /\ (pc = "assembling" \/ (pc = "exited" /\ exit_code = 0)) =>
          /\ Now = LastCheck
          /\ Holds(is_time_to_stop(TimeOfDay(LastCheck), end_time))

\* a run that returned after two ticks or more, with status writes that
\* failed and status writes that succeeded
C12_Witness ==
    /\ pc = "exited" /\ exit_code = 0 /\ Len(attempts) >= 2
    /\ \E i, j \in 1..Len(status_writes) :
          status_writes[i].written /\ ~status_writes[j].written

----------------------------------------------------------------------------
(* C13 *)

\* the status writes a run at this point has made besides those of its ticks
PhaseWrites ==
    IF pc \in {"main", "run"} THEN 0
    ELSE IF pc = "waiting" THEN 1
    ELSE IF pc \in {"loop_check", "capture", "sleep"} THEN 2
    ELSE IF pc = "assembling" THEN 3
    ELSE IF exit_code = 0 THEN 4
    ELSE Len(PhasesByPosition)

\* the attempts among the first k that failed
FailedUpTo(k) == {i \in 1..k : AttemptFailed(attempts[i])}

\* C13: write_status_file is called once on entering each phase and once
\* after every capture attempt, before that tick's sleep: the calls are
\* waiting, capturing, one capturing per tick made, creating_video, finished,
\* as far as the run has come. The call after tick k carries the counter k,
\* the errors of ticks 1..k, the outcome and the duration of tick k and the
\* label of the phase (capturing) and is stamped with the instant tick k
\* ended; a call on entering a phase carries the members as they are then.
C13_SnapshotAtEveryStep ==
    /\ Len(status_writes) = PhaseWrites + Len(attempts)
    /\ Labels = SubSeq(<<"waiting", "capturing">>, 1, Min(2, PhaseWrites))
                \o [k \in 1..Len(attempts) |-> "capturing"]
                \o SubSeq(<<"creating_video", "finished">>, 1, Max(0, PhaseWrites - 2))
    /\ \A k \in 1..Len(attempts) :
          LET snap == status_writes[2 + k].snap
          IN /\ snap.status = "capturing"
             /\ snap.photos_captured = k
             /\ snap.capture_errors = Cardinality(FailedUpTo(k))
             /\ snap.last_capture_success = IsSuccess(attempts[k])
             /\ snap.last_capture_duration_ms = attempts[k].latency_ms
             /\ snap.updated_at =
                   Epoch(EndedAt(attempts[k]) \div DayMs,
                         TimeOfDay(EndedAt(attempts[k])))
    /\ \A i \in 1..Len(status_writes) :
          (i <= 2 \/ i > 2 + Len(attempts)) =>
              LET snap == status_writes[i].snap
                  done == IF i <= 2 THEN 0 ELSE Len(attempts)
              IN /\ snap.photos_captured = done
                 /\ snap.capture_errors = Cardinality(FailedUpTo(done))
                 /\ done > 0 =>
                       /\ snap.last_capture_success = IsSuccess(attempts[done])
                       /\ snap.last_capture_duration_ms = attempts[done].latency_ms
    /\ status_writes # <<>> =>
          /\ Last(status_writes).snap.photos_captured = photo_count
          /\ Last(status_writes).snap.capture_errors = capture_errors
          /\ Last(status_writes).snap.last_capture_success = last_capture_success
          /\ Last(status_writes).snap.last_capture_timestamp = last_capture_epoch
          /\ Last(status_writes).snap.last_capture_duration_ms = last_capture_duration_ms

\* in the sleep after the second tick, a failed one with a latency, that
\* followed a success
C13_Witness ==
    /\ pc = "sleep" /\ Len(attempts) = 2
    /\ IsSuccess(attempts[1]) /\ AttemptFailed(attempts[2])
    /\ attempts[2].latency_ms > 0
    /\ Len(status_writes) = 4

----------------------------------------------------------------------------
(* C14 *)

\* the external process ran, exited with status 0 and left a readable file
ExitedZeroAndReadable(a) == IsSuccess(a) /\ a.readable

\* C14: an attempt is a success, and its path is in the frame sequence, only
\* when the process exited with 0 and left a readable file: the frame
\* sequence is the files of exactly those attempts, and the success flag
\* after an attempt says whether it was one of them.
C14_SuccessNeedsReadableFile ==
    /\ photo_files =
          [i \in 1..Len(SelectSeq(attempts, ExitedZeroAndReadable))
              |-> SelectSeq(attempts, ExitedZeroAndReadable)[i].file]
    /\ attempts # <<>> =>
          last_capture_success = ExitedZeroAndReadable(Last(attempts))

----------------------------------------------------------------------------
(* C15 *)

\* system_clock::now() in seconds since the epoch at instant t
EpochAt(t) == Epoch(t \div DayMs, TimeOfDay(t))

\* the three last-attempt fields describe attempt a: its outcome, its
\* duration, and a time stamp taken while it ran
DescribesAttempt(a, succ, dur, stamp) ==
    /\ succ = IsSuccess(a)
    /\ dur = a.latency_ms
    /\ EpochAt(StartedAt(a)) <= stamp /\ stamp <= EpochAt(EndedAt(a))

\* C15: after every capture attempt, successful or failed, the last-attempt
\* success flag, duration and time stamp of the members all describe the most
\* recent attempt, and so do those of the snapshot written after each tick.
C15_LastAttemptFieldsAgree ==
    /\ attempts # <<>> =>
          DescribesAttempt(Last(attempts), last_capture_success,
                           last_capture_duration_ms, last_capture_epoch)
    /\ \A k \in 1..Len(attempts) :
          DescribesAttempt(attempts[k],
                           status_writes[2 + k].snap.last_capture_success,
                           status_writes[2 + k].snap.last_capture_duration_ms,
                           status_writes[2 + k].snap.last_capture_timestamp)

----------------------------------------------------------------------------
(* C16 *)

\* C16: the photos_captured value of every status snapshot is the number of
\* photos captured successfully up to that write, the length of the frame
\* sequence, also after ticks that failed. Every snapshot is the latest one
\* in the state its write leads to.
C16_PhotosCapturedCountsFrames ==
    status_writes # <<>> =>
        Last(status_writes).snap.photos_captured = Len(photo_files)

----------------------------------------------------------------------------
(* C17 *)

\* no capture process runs at instant t or later
CapturesOverBy(t) == \A i \in 1..Len(attempts) : EndedAt(attempts[i]) <= t

\* C17: external activities never overlap. The capture of tick N+1 starts
\* when the process of tick N has exited; when the program stands before
\* assembly every capture process has exited; a video is only made by the
\* step that follows, and from then on no capture is started.
C17_NoOverlap ==
    /\ [](/\ \A i \in 1..(Len(attempts) - 1) :
                EndedAt(attempts[i]) <= StartedAt(attempts[i + 1])
          /\ pc \in {"loop_check", "capture", "sleep", "assembling"} =>
                CapturesOverBy(Now)
          /\ video.made => pc = "exited")
    /\ [][/\ pc \in {"assembling", "exited"} => attempts' = attempts
          /\ video' # video => pc = "assembling" /\ CapturesOverBy(Now)]_vars

\* a video was made after a capture that took longer than the interval and
\* was followed by another capture
C17_Witness ==
    /\ video.made
    /\ \E i \in 1..(Len(attempts) - 1) :
          attempts[i].latency_ms \div MsPerSecond >= interval_seconds
          /\ attempts[i].latency_ms > 0

----------------------------------------------------------------------------
(* C18 *)

\* C18: when create_video() runs over the frames, a frame that does not
\* decode is skipped and the others are written in order, and the video
\* length that is reported is the number of frames written over 25.
C18_LengthCountsWrittenFrames ==
    video.made =>
        /\ video.frames = SelectSeq(video.iterated, Decodes)
        /\ video.length_frames = Len(video.frames)
        /\ video.length_fps = 25

----------------------------------------------------------------------------
(* C19 *)

SomeDecodes(files) == \E i \in 1..Len(files) : Decodes(files[i])

\* the first file of the sequence that decodes
FirstDecodable(files) ==
    files[CHOOSE i \in 1..Len(files) :
              Decodes(files[i]) /\ \A j \in 1..(i - 1) : ~Decodes(files[j])]

\* C19: the frame size is that of the first frame that decodes: whenever some
\* frame of the sequence decodes and the writer can be opened, also when the
\* first path does not decode, a video is made with the size of the first
\* decodable frame and the decodable frames are written.
C19_SizeFromFirstDecodableFrame ==
    (/\ pc = "exited" /\ exit_code = 0
     /\ SomeDecodes(photo_files)
     /\ ~InLog("Error creating cv::VideoWriter!")) =>
        /\ video.made
        /\ video.size_from = FirstDecodable(photo_files)
        /\ video.frames = SelectSeq(photo_files, Decodes)

----------------------------------------------------------------------------
(* C20 *)

\* the time of day at instant t is inside the window: start <= current < end
InsideWindow(t) ==
    /\ Holds(is_time_to_start(TimeOfDay(t), start_time))
    /\ Fails(is_time_to_stop(TimeOfDay(t), end_time))

\* C20: no capture attempt starts while the time of day is before the start
\* or at or after the end. The Waiting loop is left only at a poll that sees
\* current >= start; every tick starts at the instant of a loop test that
\* saw current < end; and a process started at or after the end makes no
\* capture and no poll: it goes through Assembling to Finished.
C20_CapturesOnlyInsideTheWindow ==
    /\ \A i \in 1..Len(attempts) :
          /\ InsideWindow(StartedAt(attempts[i]))
          /\ StartedAt(attempts[i]) =
                IF i = 1 THEN WaitEnd ELSE NextCheckAfter(attempts[i - 1])
    /\ pc \in {"loop_check", "capture", "sleep", "assembling"} =>
          Holds(is_time_to_start(TimeOfDay(WaitEnd), start_time))
    /\ pc = "capture" => Now = LastCheck /\ InsideWindow(Now)
    /\ (/\ pc \notin {"main", "run"} /\ RunEntered
        /\ Holds(is_time_to_start(launch_ms, start_time))
        /\ Holds(is_time_to_stop(launch_ms, end_time))) =>
          /\ attempts = <<>> /\ polls = 0
          /\ pc \in {"waiting", "loop_check", "assembling", "exited"}
          /\ pc = "exited" => exit_code = 0 /\ PhasesEntered = PhaseOrder

----------------------------------------------------------------------------
(* C21 *)

\* the time from the start of tick k to the start of tick k + 1, in ms
Period(k) == StartedAt(attempts[k + 1]) - StartedAt(attempts[k])

\* ticks k and k + 1 were both started inside the window
ConsecutiveInWindow(k) ==
    /\ InsideWindow(StartedAt(attempts[k]))
    /\ InsideWindow(StartedAt(attempts[k + 1]))

\* C21: for consecutive ticks inside the window the time from the start of
\* tick k to the start of tick k + 1 is exactly max(I, d_k), I being the
\* interval and d_k the real duration of tick k's capture, sub-second parts
\* included; when d_k < I the period is exactly I, and no period is ever
\* shorter than I.
C21_PeriodIsMaxOfIntervalAndDuration ==
    \A k \in 1..(Len(attempts) - 1) :
        ConsecutiveInWindow(k) =>
            /\ Period(k) = Max(interval_seconds * MsPerSecond, attempts[k].latency_ms)
            /\ attempts[k].latency_ms < interval_seconds * MsPerSecond =>
                  Period(k) = interval_seconds * MsPerSecond
            /\ Period(k) >= interval_seconds * MsPerSecond

----------------------------------------------------------------------------
(* C22 *)

\* the loaded start is a time of day: HH:MM:SS before 24:00:00
StartIsTimeOfDay ==
    /\ time_to_seconds(start_time).ok
    /\ time_to_seconds(start_time).val < DaySeconds

\* C22: the Waiting phase always ends. Whatever the start time of day and
\* the clock at process start, the polls 30 s apart eventually see
\* current >= start and the run goes on to Capturing, also when the start
\* lies in the last 30 s of the day and a poll sleep passes midnight.
C22_WaitingEnds ==
    (pc = "waiting" /\ StartIsTimeOfDay) ~> (pc = "loop_check")

====
